---- MODULE Spec2Model ----
(***************************************************************************)
(* Node enrollment and heartbeat of the control plane.                     *)
(*                                                                         *)
(* State: the Node table (prisma.node), the NodeMetric table, the clock    *)
(* read by `new Date()`, the enrollNode requests in flight (one record     *)
(* per request, its position being the operation it awaits), the           *)
(* resources held by the external Pterodactyl panel and the agent tokens   *)
(* signed so far.  `issued` is the set of tokens generateEnrollmentToken   *)
(* has returned; `ghost` records, per request, what its token was at the   *)
(* lookup (history only: no action reads it).                              *)
(***************************************************************************)
EXTENDS Integers, Sequences, FiniteSets, TLC

\* ---------------------------------------------------------------- bounds
MaxNodes == 2        \* rows of the Node table
MaxCalls == 2        \* enrollNode requests over a run
MaxTime == 2         \* last instant of the clock
MaxMetrics == 1      \* rows of the NodeMetric table
MaxVersion == 1      \* distinct agent version strings reported
MaxNonce == 1        \* distinct nonces randombytes_buf draws
MaxBeats == 2        \* heartbeat requests over a run
MaxFill == 1         \* keys and nonces are one byte 0..MaxFill repeated
MaxSent == 3         \* heartbeats one agent run sends
MaxRefresh == 2      \* refreshToken calls over a run

\* ------------------------------------------------------------- constants
EnrollmentTtl == 1   \* expiresAt.setHours(getHours() + 24), in units of 24h
RefreshTokenDays == 7  \* expiresAt.setDate(getDate() + 7), in units of 24h

Null == -1
Calls == 1..MaxCalls
Times == 0..MaxTime
Versions == 1..MaxVersion
Nonces == 1..MaxNonce
Beats == 1..MaxBeats
BogusToken == 0      \* a string no generateEnrollmentToken ever returned

VARIABLES nodes, metrics, now, calls, ptero, issued, creds, ghost

\* The state of the enrollment and heartbeat operations above.
core == <<nodes, metrics, now, calls, ptero, issued, creds, ghost>>

\* One makeRequest call of the Pterodactyl client, followed attempt by attempt.
VARIABLES req

\* The heartbeat requests the agent controller is handling, step by step, and
\* the position of the edge agent that sends them.
VARIABLES beats, agent

\* The EncryptionService (its key once constructed), the last encrypt call,
\* the last decrypt call, and the PterodactylService built on the vault.
VARIABLES vault, box, res, client

\* The edge agent process: its position in Start, its configuration and
\* cancellation context, and counts of the requests it made.
VARIABLES proc

\* The RefreshToken table (its rows and the next fresh token) and the
\* refreshToken calls of the AuthService, step by step.
VARIABLES rtok, rcalls

reqVars == <<req>>
hbVars == <<beats, agent>>
vaultVars == <<vault, box, res, client>>
agentVars == <<proc>>
authVars == <<rtok, rcalls>>
ext == <<req, beats, agent, vault, box, res, client, proc, rtok, rcalls>>

vars == <<nodes, metrics, now, calls, ptero, issued, creds, ghost, ext>>

\* ----------------------------------------------------------- credentials
AgentTokenTtl == 30  \* expiresIn: '30d', in units of 24h

\* What an Authorization header may carry: no Bearer token, or a token with
\* its nodeId claim, whether its signature is AGENT_TOKEN_SECRET's, and its
\* exp claim.
NoBearer == [header |-> FALSE]
NoResponseYet == [status |-> 0, message |-> ""]

\* generateAgentToken(nodeId) called at time t.
SignedToken(nodeId, t) ==
    [nodeId |-> nodeId, signed |-> TRUE, exp |-> t + AgentTokenTtl]

\* ------------------------------------------------------------ Node table
\* The daemonToken column of a row that holds none (null).
NoSecret == [absent |-> TRUE]

\* pterodactylNode.daemon_token: the secret the panel returns with the node
\* it created, a plaintext string.
DaemonToken(pteroNodeId) == [plain |-> pteroNodeId]

\* EncryptionService.encrypt under the service's key: the nonce drawn by
\* randombytes_buf, followed by the secretbox of the message.
Encrypt(plaintext, nonce) == [nonce |-> nonce, box |-> plaintext]

\* PterodactylService.encryptApiKey.
EncryptApiKeyIdentity(apiKey, nonce) == apiKey
EncryptApiKey(apiKey, nonce) == Encrypt(apiKey, nonce)

\* The row prisma.node.create writes in generateEnrollmentToken.
NewNode(token, expiresAt) ==
    [status |-> "pending", enrollmentToken |-> token,
     enrollmentExpiresAt |-> expiresAt, pterodactylId |-> Null,
     daemonToken |-> NoSecret, lastHeartbeat |-> Null,
     agentVersion |-> Null]

\* A row the Node table may hold when the service starts: status 'error' is
\* written by no code of the control plane, and the tenant usage query counts
\* the nodes with status: { not: 'error' }.
SeedRows ==
    { [status |-> "error", enrollmentToken |-> Null,
       enrollmentExpiresAt |-> Null, pterodactylId |-> 1,
       daemonToken |-> Encrypt(DaemonToken(1), 1),
       lastHeartbeat |-> 0, agentVersion |-> 1] }

NodeIds == 1..Len(nodes)

\* prisma.node.findUnique({ where: { enrollmentToken: token } }): the id of
\* the row holding the token, Null when there is none.
FindByToken(token) ==
    IF \E n \in NodeIds : nodes[n].enrollmentToken = token
    THEN CHOOSE n \in NodeIds : nodes[n].enrollmentToken = token
    ELSE Null

\* node.enrollmentExpiresAt < new Date()
IsExpiredNoCheck(expiresAt, t) == FALSE
IsExpired(expiresAt, t) == expiresAt < t

\* ------------------------------------------------------ enrollNode calls
\* One enrollNode request: pc names the awaited operation, token the argument,
\* nodeId, locationId and pteroNodeId the locals node.id, location.id and
\* pterodactylNode.id, orch the orchestration calls dispatched so far.
IdleCall == [pc |-> "idle", token |-> Null, nodeId |-> Null,
             locationId |-> Null, pteroNodeId |-> Null,
             result |-> "none", orch |-> 0]

\* History of a request: what its token was at the lookup, and whether a
\* request on the same token had already returned success by then.
IdleGhost == [why |-> "none", afterSuccess |-> FALSE]

\* The request has returned or thrown: its locals are gone.
Return(call, result) ==
    [call EXCEPT !.pc = "done", !.result = result, !.nodeId = Null,
                 !.locationId = Null, !.pteroNodeId = Null]

\* The requests on this token that returned { nodeId, daemonConfig }.
Succeeded(token) ==
    { c \in Calls : calls[c].token = token /\ calls[c].result = "ok" }

\* What the presented token is, by the data model: never issued, issued and
\* consumed, issued and past its expiry, or valid.
Classify(token) ==
    IF token \notin issued THEN "absent"
    ELSE IF nodes[token].enrollmentToken # token THEN "consumed"
    ELSE IF nodes[token].enrollmentExpiresAt < now THEN "expired"
    ELSE "valid"

\* A heartbeat request not yet sent, and the agent between two ticks.
IdleBeat == [pc |-> "idle", cred |-> NoBearer, version |-> Null,
             hasSystem |-> FALSE, stamp |-> Null, cause |-> "none",
             response |-> NoResponseYet]
IdleAgent == [pc |-> "ticker", beat |-> Null]

\* No EncryptionService or PterodactylService constructed, nothing
\* encrypted or decrypted yet.
DownVault == [pc |-> "down", key |-> <<>>, error |-> "",
              keyHex |-> [set |-> FALSE, value |-> <<>>]]
NoBox == [made |-> FALSE, plain |-> <<>>, nonce |-> <<>>, blob |-> <<>>]
NoOutcome == [threw |-> FALSE, message |-> "", value |-> <<>>]
NoRes == [kind |-> "none", at |-> 0, bit |-> 0, out |-> NoOutcome]
DownClient == [pc |-> "down", apiKey |-> <<>>, decrypted |-> FALSE,
               sent |-> <<>>]

\* agent.New: the agent before Start, with the AuthToken and EnrollToken of
\* its configuration ("" when absent).  auth0 and enroll0 keep the two as
\* they were at Start; wingsConfig is the daemon configuration the enroll
\* response carried; inflight counts the requests httpClient.Do has not
\* returned from; rejected records a heartbeat answered 401.
NoToken == ""
NewAgent(authToken, enrollToken) ==
    [pc |-> "start", authToken |-> authToken, enrollToken |-> enrollToken,
     auth0 |-> authToken, enroll0 |-> enrollToken, cancelled |-> FALSE,
     wingsConfig |-> FALSE, saved |-> "no", wings |-> "no",
     enrolls |-> 0, sent |-> 0, inflight |-> 0, last |-> Null,
     rejected |-> FALSE, result |-> ""]

\* No makeRequest call under way.
IdleReq == [pc |-> "idle", attempt |-> 0, responses |-> <<>>,
            waits |-> <<>>, elapsed |-> 0, thrown |-> Null]

\* The RefreshToken table before any login, and a refreshToken call not yet
\* made.  A row's token (nanoid(64), never drawn twice) is modelled as the
\* row's own id.
RCalls == 1..MaxRefresh
NoTokens == [rows |-> {}, next |-> 1]
IdleRefresh == [pc |-> "idle", token |-> Null, stored |-> Null,
                newToken |-> Null, result |-> ""]

Init ==
    /\ rtok = NoTokens
    /\ rcalls = [c \in RCalls |-> IdleRefresh]
    /\ nodes \in { <<>> } \cup { <<r>> : r \in SeedRows }
    /\ metrics = <<>>
    /\ now = 0
    /\ calls = [c \in Calls |-> IdleCall]
    /\ ptero = [locations |-> 0, nodes |-> 0]
    /\ issued = {}
    /\ creds = {}
    /\ ghost = [c \in Calls |-> IdleGhost]
    /\ req = IdleReq
    /\ beats = [h \in Beats |-> IdleBeat]
    /\ agent = IdleAgent
    /\ vault = DownVault
    /\ box = NoBox
    /\ res = NoRes
    /\ client = DownClient
    /\ proc = NewAgent(NoToken, NoToken)

\* The clock advances.
Tick ==
    /\ now < MaxTime
    /\ now' = now + 1
    /\ UNCHANGED <<nodes, metrics, calls, ptero, issued, creds, ghost, ext>>

\* NodesService.generateEnrollmentToken: a new pending row with a fresh
\* token (nanoid(64), modelled as the row's own id) expiring in 24 hours.
GenerateEnrollmentToken ==
    /\ Len(nodes) < MaxNodes
    /\ LET token == Len(nodes) + 1
       IN /\ nodes' = Append(nodes, NewNode(token, now + EnrollmentTtl))
          /\ issued' = issued \cup {token}
    /\ UNCHANGED <<metrics, now, calls, ptero, creds, ghost, ext>>

\* enrollNode, lines 64-77: the lookup by token, the rejection of an absent
\* or expired token, and the dispatch of createLocation.
EnrollLookup(c, token) ==
    /\ calls[c].pc = "idle"
    /\ \A d \in 1..(c - 1) : calls[d].pc # "idle"    \* requests numbered by arrival
    /\ token \in issued \cup {BogusToken}
    /\ LET n == FindByToken(token)
       IN calls' = [calls EXCEPT ![c] =
            IF n = Null \/ IsExpired(nodes[n].enrollmentExpiresAt, now)
            THEN Return([@ EXCEPT !.token = token], "NotFoundException")
            ELSE [@ EXCEPT !.pc = "createLocation", !.token = token,
                           !.nodeId = n, !.orch = 1]]
    /\ ghost' = [ghost EXCEPT ![c] =
            [why |-> Classify(token),
             afterSuccess |-> Succeeded(token) # {}]]
    /\ UNCHANGED <<nodes, metrics, now, ptero, issued, creds, ext>>

\* PterodactylService.createLocation returns or throws; on return createNode
\* is dispatched.
EnrollCreateLocation(c, ok) ==
    /\ calls[c].pc = "createLocation"
    /\ IF ok
       THEN /\ ptero' = [ptero EXCEPT !.locations = @ + 1]
            /\ calls' = [calls EXCEPT ![c].pc = "createNode",
                                      ![c].locationId = ptero.locations + 1,
                                      ![c].orch = 2]
       ELSE /\ ptero' = ptero
            /\ calls' = [calls EXCEPT ![c] = Return(@, "HttpException")]
    /\ UNCHANGED <<nodes, metrics, now, issued, creds, ghost, ext>>

\* PterodactylService.createNode returns or throws; on return the update of
\* the Node row is issued.
EnrollCreateNode(c, ok) ==
    /\ calls[c].pc = "createNode"
    /\ IF ok
       THEN /\ ptero' = [ptero EXCEPT !.nodes = @ + 1]
            /\ calls' = [calls EXCEPT ![c].pc = "update",
                                      ![c].pteroNodeId = ptero.nodes + 1]
       ELSE /\ ptero' = ptero
            /\ calls' = [calls EXCEPT ![c] = Return(@, "HttpException")]
    /\ UNCHANGED <<nodes, metrics, now, issued, creds, ghost, ext>>

\* The row written by prisma.node.update({ where: { id: node.id } }).
EnrolledRowKeepToken(row, pteroNodeId, nonce) ==
    [row EXCEPT !.pterodactylId = pteroNodeId, !.status = "installing",
                !.daemonToken = EncryptApiKey(DaemonToken(pteroNodeId), nonce)]
EnrolledRow(row, pteroNodeId, nonce) ==
    [row EXCEPT !.pterodactylId = pteroNodeId, !.status = "installing",
                !.daemonToken = EncryptApiKey(DaemonToken(pteroNodeId), nonce),
                !.enrollmentToken = Null, !.enrollmentExpiresAt = Null]

\* enrollNode, lines 91-115: the update by id, then the dispatch of
\* createAllocation.
EnrollUpdate(c) ==
    /\ calls[c].pc = "update"
    /\ \E nonce \in Nonces :
          nodes' = [nodes EXCEPT ![calls[c].nodeId] =
                        EnrolledRow(@, calls[c].pteroNodeId, nonce)]
    /\ calls' = [calls EXCEPT ![c].pc = "createAllocation", ![c].orch = 3]
    /\ UNCHANGED <<metrics, now, ptero, issued, creds, ghost, ext>>

\* PterodactylService.createAllocation returns or throws; on return
\* getNodeConfiguration is dispatched.
EnrollCreateAllocation(c, ok) ==
    /\ calls[c].pc = "createAllocation"
    /\ IF ok
       THEN calls' = [calls EXCEPT ![c].pc = "getNodeConfiguration",
                                   ![c].orch = 4]
       ELSE calls' = [calls EXCEPT ![c] = Return(@, "HttpException")]
    /\ UNCHANGED <<nodes, metrics, now, ptero, issued, creds, ghost, ext>>

\* PterodactylService.getNodeConfiguration returns or throws; on return
\* enrollNode returns { nodeId, daemonConfig }.
EnrollGetNodeConfiguration(c, ok) ==
    /\ calls[c].pc = "getNodeConfiguration"
    /\ calls' = [calls EXCEPT ![c] =
                    Return(@, IF ok THEN "ok" ELSE "HttpException")]
    /\ UNCHANGED <<nodes, metrics, now, ptero, issued, creds, ghost, ext>>

\* AgentService.generateAgentToken: signs { nodeId } for whatever id it is
\* given.
GenerateAgentToken(n) ==
    /\ n \in NodeIds
    /\ n \notin creds
    /\ creds' = creds \cup {n}
    /\ UNCHANGED <<nodes, metrics, now, calls, ptero, issued, ghost, ext>>

\* The row prisma.nodeMetric.create appends.
NewMetric(n) == [nodeId |-> n]

\* The row written by prisma.node.update in handleHeartbeat.
HeartbeatRow(row, t, version) ==
    [row EXCEPT !.lastHeartbeat = t, !.status = "online",
                !.agentVersion = version]

\* AgentController.heartbeat: the Authorization header is checked, the token
\* verified and its node looked up (authenticateAgent), then handleHeartbeat
\* updates the row and stores the sample when the payload carries one.
AgentHeartbeat(auth, version, hasSystem) ==
    /\ IF auth \in creds /\ auth \in NodeIds
       THEN /\ nodes' = [nodes EXCEPT ![auth] = HeartbeatRow(@, now, version)]
            /\ IF hasSystem
               THEN /\ Len(metrics) < MaxMetrics
                    /\ metrics' = Append(metrics, NewMetric(auth))
               ELSE metrics' = metrics
       ELSE UNCHANGED <<nodes, metrics>>
    /\ UNCHANGED <<now, calls, ptero, issued, creds, ghost, ext>>

\* NodesService.updateHeartbeat: the update by id and the sample.
UpdateHeartbeat(n) ==
    /\ n \in NodeIds
    /\ Len(metrics) < MaxMetrics
    /\ nodes' = [nodes EXCEPT ![n] = [@ EXCEPT !.lastHeartbeat = now,
                                               !.status = "online"]]
    /\ metrics' = Append(metrics, NewMetric(n))
    /\ UNCHANGED <<now, calls, ptero, issued, creds, ghost, ext>>

Next ==
    \/ Tick
    \/ GenerateEnrollmentToken
    \/ \E c \in Calls, token \in 0..MaxNodes : EnrollLookup(c, token)
    \/ \E c \in Calls, ok \in BOOLEAN : EnrollCreateLocation(c, ok)
    \/ \E c \in Calls, ok \in BOOLEAN : EnrollCreateNode(c, ok)
    \/ \E c \in Calls : EnrollUpdate(c)
    \/ \E c \in Calls, ok \in BOOLEAN : EnrollCreateAllocation(c, ok)
    \/ \E c \in Calls, ok \in BOOLEAN : EnrollGetNodeConfiguration(c, ok)
    \/ \E n \in 1..MaxNodes : GenerateAgentToken(n)
    \/ \E auth \in {Null} \cup 1..MaxNodes, version \in Versions,
          hasSystem \in BOOLEAN : AgentHeartbeat(auth, version, hasSystem)
    \/ \E n \in 1..MaxNodes : UpdateHeartbeat(n)

Spec == Init /\ [][Next]_vars

TypeOK ==
    /\ Len(nodes) <= MaxNodes
    /\ now \in Times
    /\ \A c \in Calls : calls[c].orch \in 0..4

\* ====================================================== makeRequest
\* PterodactylService.makeRequest, one call followed attempt by attempt.
\* Times are in seconds.  req.responses are the HTTP statuses the attempts
\* received (NoResponse: a timeout or a refused connection, error.response
\* undefined), req.waits the backoff waits started, req.elapsed the time
\* since the call began, req.thrown the status of the HttpException.
Retries == 3           \* retries = 3
RequestTimeout == 30   \* HttpModule.register({ timeout: 30000 })
NoResponse == 0
InternalServerError == 500   \* HttpStatus.INTERNAL_SERVER_ERROR
Statuses == {200, 400, 503, NoResponse}
Durations == {1, RequestTimeout}

RECURSIVE Pow(_, _)
Pow(b, n) == IF n = 0 THEN 1 ELSE b * Pow(b, n - 1)

\* Math.pow(2, attempt) * 1000 milliseconds
BackoffFixed(attempt) == 2
Backoff(attempt) == Pow(2, attempt)

\* The call begins: the first attempt is sent.
ReqStart ==
    /\ req.pc = "idle"
    /\ req' = [req EXCEPT !.pc = "request", !.attempt = 1]
    /\ UNCHANGED <<core, hbVars, vaultVars, agentVars, authVars>>

\* An attempt ends after d seconds: with a 2xx response makeRequest returns
\* response.data; otherwise the catch block throws when this was the last
\* attempt and starts the backoff wait when it was not.
ReqRespondOneMore(status, d) ==
    /\ req.pc = "request"
    /\ status = NoResponse \/ d < RequestTimeout
    /\ LET r == [req EXCEPT !.responses = Append(@, status),
                            !.elapsed = @ + d]
       IN req' =
            IF status = 200
            THEN [r EXCEPT !.pc = "returned"]
            ELSE IF req.attempt = Retries + 1
            THEN [r EXCEPT !.pc = "thrown",
                           !.thrown = IF status = NoResponse
                                      THEN InternalServerError ELSE status]
            ELSE [r EXCEPT !.pc = "backoff",
                           !.waits = Append(@, Backoff(req.attempt))]
    /\ UNCHANGED <<core, hbVars, vaultVars, agentVars, authVars>>

ReqRespond(status, d) ==
    /\ req.pc = "request"
    /\ status = NoResponse \/ d < RequestTimeout
    /\ LET r == [req EXCEPT !.responses = Append(@, status),
                            !.elapsed = @ + d]
       IN req' =
            IF status = 200
            THEN [r EXCEPT !.pc = "returned"]
            ELSE IF req.attempt = Retries
            THEN [r EXCEPT !.pc = "thrown",
                           !.thrown = IF status = NoResponse
                                      THEN InternalServerError ELSE status]
            ELSE [r EXCEPT !.pc = "backoff",
                           !.waits = Append(@, Backoff(req.attempt))]
    /\ UNCHANGED <<core, hbVars, vaultVars, agentVars, authVars>>

\* The setTimeout of the backoff fires: the loop sends the next attempt.
ReqBackoffDone ==
    /\ req.pc = "backoff"
    /\ req' = [req EXCEPT !.pc = "request", !.attempt = @ + 1,
                          !.elapsed = @ + req.waits[Len(req.waits)]]
    /\ UNCHANGED <<core, hbVars, vaultVars, agentVars, authVars>>

NextRequest ==
    \/ ReqStart
    \/ \E status \in Statuses, d \in Durations : ReqRespond(status, d)
    \/ ReqBackoffDone

SpecRequest == Init /\ [][NextRequest]_vars

\* Every attempt ends (the HTTP client's timeout bounds it) and every backoff
\* timer fires.
ReqResponds == \E status \in Statuses, d \in Durations : ReqRespond(status, d)

SpecRequestLive ==
    /\ SpecRequest
    /\ WF_vars(ReqResponds)
    /\ WF_vars(ReqBackoffDone)

\* ========================================================= heartbeat
\* The heartbeat endpoint followed step by step, for a node that enrollNode
\* has enrolled and for which generateAgentToken has signed a token at
\* time 0.  A request is received (header check, authenticateAgent, and the
\* `new Date()` of handleHeartbeat's update, beats[h].stamp), its update of
\* the Node row commits, then its NodeMetric row is created.
EnrolledNode == 1
NoSuchNode == 2        \* an id of no row of the Node table

Credentials ==
    { SignedToken(EnrolledNode, 0),
      [SignedToken(EnrolledNode, 0) EXCEPT !.signed = FALSE],
      [SignedToken(EnrolledNode, 0) EXCEPT !.exp = 1],
      SignedToken(NoSuchNode, 0) }

InitHeartbeat ==
    /\ rtok = NoTokens
    /\ rcalls = [c \in RCalls |-> IdleRefresh]
    /\ nodes = << EnrolledRow(NewNode(1, EnrollmentTtl), 1, 1) >>
    /\ metrics = <<>>
    /\ now = 0
    /\ calls = [c \in Calls |-> IdleCall]
    /\ ptero = [locations |-> 1, nodes |-> 1]
    /\ issued = {1}
    /\ creds = {EnrolledNode}
    /\ ghost = [c \in Calls |-> IdleGhost]
    /\ req = IdleReq
    /\ beats = [h \in Beats |-> IdleBeat]
    /\ agent = IdleAgent
    /\ vault = DownVault
    /\ box = NoBox
    /\ res = NoRes
    /\ client = DownClient
    /\ proc = NewAgent(NoToken, NoToken)

\* What the try block of authenticateAgent does with the token at time t:
\* jwtService.verify throws on a bad signature or a past exp, and the block
\* throws UnauthorizedException('Node not found') when findUnique finds no
\* row.
VerifyOutcome(cred, t) ==
    IF ~cred.signed THEN "invalid signature"
    ELSE IF cred.exp <= t THEN "jwt expired"
    ELSE IF cred.nodeId \notin NodeIds THEN "Node not found"
    ELSE "ok"

\* authenticateAgent: the node, or the exception its catch block throws.
AuthenticateAgentLeaky(cred, t) ==
    IF VerifyOutcome(cred, t) = "ok"
    THEN [status |-> 200, message |-> "ok"]
    ELSE [status |-> 401, message |-> VerifyOutcome(cred, t)]
AuthenticateAgentUnverified(cred, t) ==
    IF cred.nodeId \in NodeIds
    THEN [status |-> 200, message |-> "ok"]
    ELSE [status |-> 401, message |-> "Invalid agent token"]
AuthenticateAgent(cred, t) ==
    IF VerifyOutcome(cred, t) = "ok"
    THEN [status |-> 200, message |-> "ok"]
    ELSE [status |-> 401, message |-> "Invalid agent token"]

\* The agent's tick: sendHeartbeat posts the payload, and the controller
\* receives it.  A request without Bearer token or rejected by
\* authenticateAgent is answered 401; otherwise handleHeartbeat issues the
\* update of the Node row with lastHeartbeat: new Date().
AgentSendHeartbeat(h, cred, version, hasSystem) ==
    /\ agent.pc = "ticker"
    /\ beats[h].pc = "idle"
    /\ \A g \in 1..(h - 1) : beats[g].pc # "idle"
    /\ agent' = [pc |-> "awaiting", beat |-> h]
    /\ LET b == [beats[h] EXCEPT !.cred = cred, !.version = version,
                                 !.hasSystem = hasSystem]
       IN beats' = [beats EXCEPT ![h] =
            IF cred = NoBearer
            THEN [b EXCEPT !.pc = "done",
                           !.response = [status |-> 401, message |->
                               "Missing or invalid authorization header"]]
            ELSE IF AuthenticateAgent(cred, now).status # 200
            THEN [b EXCEPT !.pc = "done",
                           !.cause = VerifyOutcome(cred, now),
                           !.response = AuthenticateAgent(cred, now)]
            ELSE [b EXCEPT !.pc = "update", !.stamp = now]]
    /\ UNCHANGED <<core, reqVars, vaultVars, agentVars, authVars>>

\* The update of the Node row commits; the NodeMetric row is created next
\* when the payload has a system part, else { status: 'ok' } is returned.
HbUpdate(h) ==
    /\ beats[h].pc = "update"
    /\ nodes' = [nodes EXCEPT ![beats[h].cred.nodeId] =
                    HeartbeatRow(@, beats[h].stamp, beats[h].version)]
    /\ beats' = [beats EXCEPT ![h] =
            IF beats[h].hasSystem
            THEN [@ EXCEPT !.pc = "metric"]
            ELSE [@ EXCEPT !.pc = "done",
                           !.response = [status |-> 200, message |-> "ok"]]]
    /\ UNCHANGED <<metrics, now, calls, ptero, issued, creds, ghost, req,
                   agent, vaultVars, agentVars, authVars>>

\* prisma.nodeMetric.create ends: the row is stored and { status: 'ok' }
\* returned, or the create throws and the request is answered 500.
HbMetric(h, ok) ==
    /\ beats[h].pc = "metric"
    /\ IF ok
       THEN /\ metrics' = Append(metrics, NewMetric(beats[h].cred.nodeId))
            /\ beats' = [beats EXCEPT ![h].pc = "done",
                            ![h].response = [status |-> 200, message |-> "ok"]]
       ELSE /\ metrics' = metrics
            /\ beats' = [beats EXCEPT ![h].pc = "done",
                            ![h].response = [status |-> 500, message |->
                                                "Internal server error"]]
    /\ UNCHANGED <<nodes, now, calls, ptero, issued, creds, ghost, req, agent,
                   vaultVars, agentVars, authVars>>

\* The agent reads the response of its request: sendHeartbeat returns.
AgentReceive ==
    /\ agent.pc = "awaiting"
    /\ beats[agent.beat].pc = "done"
    /\ agent' = IdleAgent
    /\ UNCHANGED <<core, reqVars, beats, vaultVars, agentVars, authVars>>

\* The agent's http.Client gives up after its 30 second Timeout: sendHeartbeat
\* returns the error, the loop logs it and waits for the next tick, while the
\* controller goes on handling the request.
AgentTimeout ==
    /\ agent.pc = "awaiting"
    /\ beats[agent.beat].pc # "done"
    /\ agent' = IdleAgent
    /\ UNCHANGED <<core, reqVars, beats, vaultVars, agentVars, authVars>>

NextHeartbeat ==
    \/ Tick
    \/ \E h \in Beats, cred \in Credentials \cup {NoBearer},
          version \in Versions, hasSystem \in BOOLEAN :
            AgentSendHeartbeat(h, cred, version, hasSystem)
    \/ \E h \in Beats : HbUpdate(h)
    \/ \E h \in Beats, ok \in BOOLEAN : HbMetric(h, ok)
    \/ AgentReceive
    \/ AgentTimeout

SpecHeartbeat == InitHeartbeat /\ [][NextHeartbeat]_vars

\* ==================================================== EncryptionService
\* Strings are sequences of UTF-16 code units, buffers sequences of bytes.
KeyBytes == 32     \* sodium.crypto_secretbox_KEYBYTES
NonceBytes == 24   \* sodium.crypto_secretbox_NONCEBYTES
MacBytes == 16     \* sodium.crypto_secretbox_MACBYTES
PadChar == 61      \* '='
Replacement == 65533   \* U+FFFD

RECURSIVE Rep(_, _)
Rep(x, n) == IF n = 0 THEN <<>> ELSE <<x>> \o Rep(x, n - 1)

RECURSIVE Sum(_)
Sum(b) == IF b = <<>> THEN 0 ELSE (Head(b) + Sum(Tail(b))) % 256

Drop(s, n) == SubSeq(s, n + 1, Len(s))

IsHighSurrogate(u) == u \in 55296..56319
IsLowSurrogate(u) == u \in 56320..57343
IsContinuation(b) == b \in 128..191

\* Buffer.from(string, 'utf8'): a surrogate without its partner is written
\* as U+FFFD.
RECURSIVE Utf8Encode(_)
Utf8Encode(s) ==
    IF s = <<>> THEN <<>>
    ELSE LET u == Head(s) IN
      IF u < 128 THEN <<u>> \o Utf8Encode(Tail(s))
      ELSE IF u < 2048
      THEN <<192 + (u \div 64), 128 + (u % 64)>> \o Utf8Encode(Tail(s))
      ELSE IF IsHighSurrogate(u) /\ Len(s) >= 2 /\ IsLowSurrogate(s[2])
      THEN LET cp == 65536 + (u - 55296) * 1024 + (s[2] - 56320)
           IN <<240 + (cp \div 262144), 128 + ((cp \div 4096) % 64),
                128 + ((cp \div 64) % 64), 128 + (cp % 64)>>
                  \o Utf8Encode(Drop(s, 2))
      ELSE IF IsHighSurrogate(u) \/ IsLowSurrogate(u)
      THEN <<239, 191, 189>> \o Utf8Encode(Tail(s))
      ELSE <<224 + (u \div 4096), 128 + ((u \div 64) % 64), 128 + (u % 64)>>
              \o Utf8Encode(Tail(s))

\* buffer.toString('utf8'): bytes that are no UTF-8 sequence are read as
\* U+FFFD.
RECURSIVE Utf8Decode(_)
Utf8Decode(b) ==
    IF b = <<>> THEN <<>>
    ELSE LET b1 == Head(b)
             two == (b1 - 192) * 64 + (b[2] - 128)
             three == (b1 - 224) * 4096 + (b[2] - 128) * 64 + (b[3] - 128)
             four == (b1 - 240) * 262144 + (b[2] - 128) * 4096
                        + (b[3] - 128) * 64 + (b[4] - 128)
         IN
      IF b1 < 128 THEN <<b1>> \o Utf8Decode(Tail(b))
      ELSE IF /\ b1 \in 194..223 /\ Len(b) >= 2 /\ IsContinuation(b[2])
      THEN <<two>> \o Utf8Decode(Drop(b, 2))
      ELSE IF /\ b1 \in 224..239 /\ Len(b) >= 3
              /\ IsContinuation(b[2]) /\ IsContinuation(b[3])
              /\ three >= 2048
              /\ ~IsHighSurrogate(three) /\ ~IsLowSurrogate(three)
      THEN <<three>> \o Utf8Decode(Drop(b, 3))
      ELSE IF /\ b1 \in 240..244 /\ Len(b) >= 4
              /\ IsContinuation(b[2]) /\ IsContinuation(b[3])
              /\ IsContinuation(b[4])
              /\ four \in 65536..1114111
      THEN <<55296 + ((four - 65536) \div 1024),
             56320 + ((four - 65536) % 1024)>> \o Utf8Decode(Drop(b, 4))
      ELSE <<Replacement>> \o Utf8Decode(Tail(b))

\* The base64 alphabet, and the value of a character (-1: no base64
\* character; '-' and '_' are read as '+' and '/').
Base64Char(v) ==
    IF v < 26 THEN 65 + v
    ELSE IF v < 52 THEN 97 + (v - 26)
    ELSE IF v < 62 THEN 48 + (v - 52)
    ELSE IF v = 62 THEN 43 ELSE 47

Unbase64(c) ==
    IF c \in 65..90 THEN c - 65
    ELSE IF c \in 97..122 THEN c - 97 + 26
    ELSE IF c \in 48..57 THEN c - 48 + 52
    ELSE IF c = 43 \/ c = 45 THEN 62
    ELSE IF c = 47 \/ c = 95 THEN 63
    ELSE -1

\* buffer.toString('base64')
RECURSIVE Base64Encode(_)
Base64Encode(b) ==
    IF b = <<>> THEN <<>>
    ELSE IF Len(b) = 1
    THEN <<Base64Char(b[1] \div 4), Base64Char((b[1] % 4) * 16),
           PadChar, PadChar>>
    ELSE IF Len(b) = 2
    THEN <<Base64Char(b[1] \div 4),
           Base64Char((b[1] % 4) * 16 + (b[2] \div 16)),
           Base64Char((b[2] % 16) * 4), PadChar>>
    ELSE <<Base64Char(b[1] \div 4),
           Base64Char((b[1] % 4) * 16 + (b[2] \div 16)),
           Base64Char((b[2] % 16) * 4 + (b[3] \div 64)),
           Base64Char(b[3] % 64)>> \o Base64Encode(Drop(b, 3))

\* Buffer.from(string, 'base64'): characters outside the alphabet are
\* skipped, decoding stops at the first '=', and the bits of a last
\* incomplete group that fill no byte are dropped.
RECURSIVE Base64Values(_)
Base64Values(s) ==
    IF s = <<>> \/ Head(s) = PadChar THEN <<>>
    ELSE IF Unbase64(Head(s)) < 0 THEN Base64Values(Tail(s))
    ELSE <<Unbase64(Head(s))>> \o Base64Values(Tail(s))

RECURSIVE Base64Pack(_)
Base64Pack(v) ==
    IF Len(v) < 2 THEN <<>>
    ELSE IF Len(v) = 2 THEN <<v[1] * 4 + (v[2] \div 16)>>
    ELSE IF Len(v) = 3
    THEN <<v[1] * 4 + (v[2] \div 16), (v[2] % 16) * 16 + (v[3] \div 4)>>
    ELSE <<v[1] * 4 + (v[2] \div 16), (v[2] % 16) * 16 + (v[3] \div 4),
           (v[3] % 4) * 64 + v[4]>> \o Base64Pack(Drop(v, 4))

Base64Decode(s) == Base64Pack(Base64Values(s))

\* Buffer.from(string, 'hex'): pairs of hex digits up to the first pair that
\* is none.
HexValue(c) ==
    IF c \in 48..57 THEN c - 48
    ELSE IF c \in 97..102 THEN c - 87
    ELSE IF c \in 65..70 THEN c - 55
    ELSE -1

HexDigit(v) == IF v < 10 THEN 48 + v ELSE 87 + v

RECURSIVE HexEncode(_)
HexEncode(b) ==
    IF b = <<>> THEN <<>>
    ELSE <<HexDigit(Head(b) \div 16), HexDigit(Head(b) % 16)>>
            \o HexEncode(Tail(b))

RECURSIVE HexDecode(_)
HexDecode(s) ==
    IF Len(s) < 2 \/ HexValue(s[1]) < 0 \/ HexValue(s[2]) < 0 THEN <<>>
    ELSE <<HexValue(s[1]) * 16 + HexValue(s[2])>> \o HexDecode(Drop(s, 2))

\* crypto_secretbox_easy and crypto_secretbox_open_easy as an authenticated
\* cipher: the box is a MacBytes tag over key, nonce and body followed by
\* the body, the message shifted by a pad drawn from key and nonce; opening
\* succeeds only when the tag is the one of the body under this nonce and
\* key.
SecretboxPad(nonce, key) == (Sum(key) + Sum(nonce)) % 256

SecretboxTag(body, nonce, key) ==
    <<Sum(key), Sum(nonce), Sum(body), Len(body) % 256>>
        \o Rep(0, MacBytes - 4)

SecretboxEasy(message, nonce, key) ==
    LET body == [i \in 1..Len(message) |->
                    (message[i] + SecretboxPad(nonce, key)) % 256]
    IN SecretboxTag(body, nonce, key) \o body

SecretboxOpenEasy(ciphertext, nonce, key) ==
    LET tag == SubSeq(ciphertext, 1, MacBytes)
        body == Drop(ciphertext, MacBytes)
    IN [success |-> tag = SecretboxTag(body, nonce, key),
        message |-> [i \in 1..Len(body) |->
                        (body[i] + 256 - SecretboxPad(nonce, key)) % 256]]

\* What configService.get returns: undefined or a string.
Undefined == [set |-> FALSE, value |-> <<>>]
Configured(string) == [set |-> TRUE, value |-> string]

\* The EncryptionService constructor.
NewEncryptionServiceUnchecked(keyHex) ==
    [pc |-> "up", key |-> HexDecode(keyHex.value), error |-> "",
     keyHex |-> keyHex]
NewEncryptionService(keyHex) ==
    IF ~keyHex.set \/ keyHex.value = <<>>
    THEN [pc |-> "failed", key |-> <<>>, keyHex |-> keyHex,
          error |-> "ENCRYPTION_KEY environment variable is required"]
    ELSE IF Len(HexDecode(keyHex.value)) # KeyBytes
    THEN [pc |-> "failed", key |-> <<>>, keyHex |-> keyHex,
          error |-> "Encryption key must be 32 bytes (64 hex characters)"]
    ELSE [pc |-> "up", key |-> HexDecode(keyHex.value), error |-> "",
          keyHex |-> keyHex]

\* EncryptionService.encrypt with the nonce randombytes_buf draws, under the
\* service's key.
encrypt(plaintext, nonce, key) ==
    Base64Encode(nonce \o SecretboxEasy(Utf8Encode(plaintext), nonce, key))

\* EncryptionService.decrypt under the service's key: the returned string,
\* or the Error its catch block throws.
decryptTry(encryptedData, key) ==
    LET data == Base64Decode(encryptedData)
        nonce == SubSeq(data, 1, NonceBytes)
        ciphertext == Drop(data, NonceBytes)
        opened == SecretboxOpenEasy(ciphertext, nonce, key)
    IN IF Len(data) < NonceBytes + MacBytes
       THEN [threw |-> TRUE, message |-> "Invalid encrypted data length",
             value |-> <<>>]
       ELSE IF ~opened.success
       THEN [threw |-> TRUE,
             message |-> "Decryption failed - invalid data or key",
             value |-> <<>>]
       ELSE [threw |-> FALSE, message |-> "",
             value |-> Utf8Decode(opened.message)]

decryptUncaught(encryptedData, key) == decryptTry(encryptedData, key)
decrypt(encryptedData, key) ==
    LET tried == decryptTry(encryptedData, key)
    IN IF tried.threw
       THEN [threw |-> TRUE, message |-> "Decryption failed", value |-> <<>>]
       ELSE tried

\* The PterodactylService constructor: the configured API key is decrypted,
\* and kept as configured when decrypt throws.
NewPterodactylService(encryptedApiKey, key) ==
    IF ~encryptedApiKey.set \/ encryptedApiKey.value = <<>>
    THEN [DownClient EXCEPT !.pc = "failed"]
    ELSE LET decrypted == decrypt(encryptedApiKey.value, key)
         IN IF decrypted.threw
            THEN [DownClient EXCEPT !.pc = "up",
                                    !.apiKey = encryptedApiKey.value]
            ELSE [DownClient EXCEPT !.pc = "up", !.decrypted = TRUE,
                                    !.apiKey = decrypted.value]

Fills == 0..MaxFill
KeyOf(f) == Rep(f, KeyBytes)
NonceOf(f) == Rep(f, NonceBytes)

\* Values of ENCRYPTION_KEY: unset, empty, a key of KeyBytes bytes, one byte
\* short, one byte long, and 64 characters of which the last two are no hex
\* digits.
KeyConfigs ==
    {Undefined, Configured(<<>>)}
        \cup { Configured(HexEncode(KeyOf(f))) : f \in Fills }
        \cup { Configured(HexEncode(Rep(0, KeyBytes - 1))),
               Configured(HexEncode(Rep(0, KeyBytes + 1))),
               Configured(HexEncode(Rep(0, KeyBytes - 1)) \o <<122, 122>>) }

\* Plaintexts: '', 'A', U+00E9, U+1F600 as a surrogate pair, and a high
\* surrogate alone.
Plaintexts == {<<>>, <<65>>, <<233>>, <<55357, 56832>>, <<55296>>}

\* The Pterodactyl application API key, in clear.
ApiKey == <<112, 116, 108, 97>>

\* Values of PTERODACTYL_API_KEY: unset, the key in clear, the key encrypted
\* under the vault's key, the key encrypted under another key.
ApiKeyConfigs ==
    {Undefined, Configured(ApiKey)}
        \cup { Configured(encrypt(ApiKey, NonceOf(0), KeyOf(f))) : f \in Fills }

FlipBit(c, b) ==
    IF (c \div Pow(2, b)) % 2 = 1 THEN c - Pow(2, b) ELSE c + Pow(2, b)

\* The string handed to decrypt: the blob encrypt returned, a proper prefix
\* of it, the blob with bit `bit` of character `at` flipped, or the blob the
\* same call gives under the key KeyOf(at).
DecryptInput(kind, at, bit) ==
    IF kind = "intact" THEN box.blob
    ELSE IF kind = "truncated" THEN SubSeq(box.blob, 1, at)
    ELSE IF kind = "flipped" THEN [box.blob EXCEPT ![at] = FlipBit(@, bit)]
    ELSE encrypt(box.plain, box.nonce, KeyOf(at))

\* Application start: Nest constructs the EncryptionService.
VaultStart(keyHex) ==
    /\ vault.pc = "down"
    /\ vault' = NewEncryptionService(keyHex)
    /\ UNCHANGED <<core, reqVars, hbVars, agentVars, authVars, box, res, client>>

\* (Runs follow either the vault's own calls or the client built on it.)
VaultEncrypt(plaintext, f) ==
    /\ vault.pc = "up"
    /\ ~box.made
    /\ client.pc = "down"
    /\ box' = [made |-> TRUE, plain |-> plaintext, nonce |-> NonceOf(f),
               blob |-> encrypt(plaintext, NonceOf(f), vault.key)]
    /\ UNCHANGED <<core, reqVars, hbVars, agentVars, authVars, vault, res, client>>

VaultDecrypt(kind, at, bit) ==
    /\ vault.pc = "up"
    /\ box.made
    /\ res.kind = "none"
    /\ kind = "intact" => at = 0 /\ bit = 0
    /\ kind = "truncated" => at < Len(box.blob) /\ bit = 0
    /\ kind = "flipped" => at \in 1..Len(box.blob)
    /\ kind = "wrongkey" => at \in Fills /\ KeyOf(at) # vault.key /\ bit = 0
    /\ res' = [kind |-> kind, at |-> at, bit |-> bit,
               out |-> decrypt(DecryptInput(kind, at, bit), vault.key)]
    /\ UNCHANGED <<core, reqVars, hbVars, agentVars, authVars, vault, box, client>>

\* Nest constructs the PterodactylService with the EncryptionService injected.
ClientStart(encryptedApiKey) ==
    /\ vault.pc = "up"
    /\ client.pc = "down"
    /\ ~box.made
    /\ client' = NewPterodactylService(encryptedApiKey, vault.key)
    /\ UNCHANGED <<core, reqVars, hbVars, agentVars, authVars, vault, box, res>>

\* makeRequest sends 'Authorization': `Bearer ${this.apiKey}`.
ClientRequest ==
    /\ client.pc = "up"
    /\ client.sent = <<>>
    /\ client' = [client EXCEPT !.sent = <<client.apiKey>>]
    /\ UNCHANGED <<core, reqVars, hbVars, agentVars, authVars, vault, box, res>>

NextVault ==
    \/ \E keyHex \in KeyConfigs : VaultStart(keyHex)
    \/ \E plaintext \in Plaintexts, f \in Fills : VaultEncrypt(plaintext, f)
    \/ \E kind \in {"intact", "truncated", "flipped", "wrongkey"},
          at \in 0..Len(box.blob), bit \in 0..7 : VaultDecrypt(kind, at, bit)
    \/ \E encryptedApiKey \in ApiKeyConfigs :
          ClientStart(encryptedApiKey)
    \/ ClientRequest

InitVault == Init /\ nodes = <<>>

SpecVault == InitVault /\ [][NextVault]_vars

\* ============================================================ edge agent
\* Agent.Start of the edge agent, followed from statement to statement, with
\* the outcomes of what it calls (the control plane's answers, config.Save,
\* configureWings) chosen freely.  A status of TransportError is an err of
\* httpClient.Do: no answer within the client's Timeout, a refused
\* connection, or the request's context cancelled.
TransportError == 0
AuthTokenValue == "auth-token"
EnrollTokenValue == "enroll-token"
HeartbeatStatuses == {200, 401, 500, TransportError}

\* What POST /agent/enroll may end with: an EnrollmentResponse with or
\* without auth_token and wings_config, an HTTP error, a transport error.
EnrollResponses ==
    [status : {200}, authToken : {AuthTokenValue, NoToken},
     wings : BOOLEAN]
        \cup [status : {404, TransportError}, authToken : {NoToken},
              wings : {FALSE}]

InitAgent ==
    /\ rtok = NoTokens
    /\ rcalls = [c \in RCalls |-> IdleRefresh]
    /\ nodes = <<>>
    /\ metrics = <<>>
    /\ now = 0
    /\ calls = [c \in Calls |-> IdleCall]
    /\ ptero = [locations |-> 0, nodes |-> 0]
    /\ issued = {}
    /\ creds = {}
    /\ ghost = [c \in Calls |-> IdleGhost]
    /\ req = IdleReq
    /\ beats = [h \in Beats |-> IdleBeat]
    /\ agent = IdleAgent
    /\ vault = DownVault
    /\ box = NoBox
    /\ res = NoRes
    /\ client = DownClient
    /\ \E authToken \in {NoToken, AuthTokenValue},
          enrollToken \in {NoToken, EnrollTokenValue} :
            proc = NewAgent(authToken, enrollToken)

\* makeRequest fails: httpClient.Do returned an err, or StatusCode >= 400.
RequestFailed(status) == status = TransportError \/ status >= 400

\* Start's test before enroll.
NeedsEnrollIgnoringAuth(p) == p.enrollToken # NoToken
NeedsEnroll(p) == p.authToken = NoToken /\ p.enrollToken # NoToken

\* Start returns err (or nil).
StartReturns(p, err) == [p EXCEPT !.pc = "returned", !.result = err]

\* makeRequest hands a request to httpClient.Do and waits for it.
BeginRequest(p, pc) == [p EXCEPT !.pc = pc, !.inflight = @ + 1]

\* sendHeartbeat is called and blocks in makeRequest; the variant calls it
\* without waiting for it.
BeginHeartbeatAsync(p, pc) ==
    [p EXCEPT !.sent = @ + 1, !.inflight = @ + 1]
BeginHeartbeat(p, pc) == [BeginRequest(p, pc) EXCEPT !.sent = @ + 1]

\* sendHeartbeat returned with this status: an error is logged, and the
\* loop goes (back) to its select.
AfterHeartbeatFatal(p, status) ==
    IF RequestFailed(status)
    THEN StartReturns([p EXCEPT !.inflight = @ - 1, !.last = status],
                      "heartbeat failed")
    ELSE [p EXCEPT !.pc = "select", !.inflight = @ - 1, !.last = status]
AfterHeartbeat(p, status) ==
    [p EXCEPT !.pc = "select", !.inflight = @ - 1, !.last = status,
              !.rejected = @ \/ status = 401]

\* case <-a.ctx.Done(): return nil
SelectDoneContinue(p) == p
SelectDone(p) == StartReturns(p, "nil")

AgentStart ==
    /\ proc.pc = "start"
    /\ proc' = IF NeedsEnroll(proc)
               THEN [BeginRequest(proc, "enrolling") EXCEPT !.enrolls = @ + 1]
               ELSE [proc EXCEPT !.pc = "validate"]
    /\ UNCHANGED <<core, reqVars, hbVars, vaultVars, authVars>>

\* enroll: makeRequest returns; on success the configuration takes the
\* response's AuthToken and drops the EnrollToken.
AgentEnrollReturn(resp) ==
    /\ proc.pc = "enrolling"
    /\ proc.cancelled => resp.status = TransportError
    /\ proc' = IF RequestFailed(resp.status)
               THEN StartReturns([proc EXCEPT !.inflight = @ - 1],
                                 "enrollment failed")
               ELSE [proc EXCEPT !.pc = "save", !.inflight = @ - 1,
                                 !.authToken = resp.authToken,
                                 !.enrollToken = NoToken,
                                 !.wingsConfig = resp.wings]
    /\ UNCHANGED <<core, reqVars, hbVars, vaultVars, authVars>>

\* enroll: config.Save; a failure is logged as a warning.
AgentSave(ok) ==
    /\ proc.pc = "save"
    /\ proc' = [proc EXCEPT !.saved = IF ok THEN "yes" ELSE "failed",
                            !.pc = IF proc.wingsConfig THEN "wings"
                                   ELSE "validate"]
    /\ UNCHANGED <<core, reqVars, hbVars, vaultVars, authVars>>

\* enroll: configureWings (file write, restart, is-active); a failure is
\* logged as an error, and enroll returns nil.
AgentConfigureWings(ok) ==
    /\ proc.pc = "wings"
    /\ proc' = [proc EXCEPT !.wings = IF ok THEN "yes" ELSE "failed",
                            !.pc = "validate"]
    /\ UNCHANGED <<core, reqVars, hbVars, vaultVars, authVars>>

\* Start: no AuthToken is an error; else the initial heartbeat is sent. The
\* variant goes on to the heartbeats without looking at AuthToken.
AgentValidateUnchecked ==
    /\ proc.pc = "validate"
    /\ proc' = BeginHeartbeat(proc, "initial")
    /\ UNCHANGED <<core, reqVars, hbVars, vaultVars, authVars>>
AgentValidate ==
    /\ proc.pc = "validate"
    /\ proc' = IF proc.authToken = NoToken
               THEN StartReturns(proc, "no authentication token available")
               ELSE BeginHeartbeat(proc, "initial")
    /\ UNCHANGED <<core, reqVars, hbVars, vaultVars, authVars>>

\* sendHeartbeat returns (a request whose context is cancelled returns the
\* context's error).
AgentHeartbeatReturn(status) ==
    /\ proc.pc \in {"initial", "heartbeat"}
    /\ proc.cancelled => status = TransportError
    /\ proc' = AfterHeartbeat(proc, status)
    /\ UNCHANGED <<core, reqVars, hbVars, vaultVars, authVars>>

\* select: case <-ticker.C
AgentTick ==
    /\ proc.pc = "select"
    /\ proc.sent < MaxSent
    /\ proc' = BeginHeartbeat(proc, "heartbeat")
    /\ UNCHANGED <<core, reqVars, hbVars, vaultVars, authVars>>

\* select: case <-a.ctx.Done()
AgentDone ==
    /\ proc.pc = "select"
    /\ proc.cancelled
    /\ proc' = SelectDone(proc)
    /\ UNCHANGED <<core, reqVars, hbVars, vaultVars, authVars>>

\* main's signal goroutine calls Stop: a.cancel().
AgentStop ==
    /\ ~proc.cancelled
    /\ proc.pc # "returned"
    /\ proc' = [proc EXCEPT !.cancelled = TRUE]
    /\ UNCHANGED <<core, reqVars, hbVars, vaultVars, authVars>>

AgentHeartbeatReturns ==
    \E status \in HeartbeatStatuses : AgentHeartbeatReturn(status)

NextAgent ==
    \/ AgentStart
    \/ \E resp \in EnrollResponses : AgentEnrollReturn(resp)
    \/ \E ok \in BOOLEAN : AgentSave(ok)
    \/ \E ok \in BOOLEAN : AgentConfigureWings(ok)
    \/ AgentValidate
    \/ AgentHeartbeatReturns
    \/ AgentTick
    \/ AgentDone
    \/ AgentStop

SpecAgent == InitAgent /\ [][NextAgent]_vars

\* httpClient.Do returns within the client's Timeout, and a select whose
\* Done case is ready again and again takes it.
SpecAgentLive ==
    /\ SpecAgent
    /\ WF_vars(AgentHeartbeatReturns)
    /\ SF_vars(AgentDone)

\* ============================================================ end to end
\* One edge agent talking to the control plane: its requests are answered
\* by the routes the AgentController declares.
AgentRoutes == {"/agent/heartbeat"}
NotFound == 404

\* The status Nest answers a POST on this path with before any handler
\* runs: 404 when no controller declares the route.
RouteStatus(path) == IF path \in AgentRoutes THEN 200 ELSE NotFound

\* The agent's EnrollToken is the token of Node row 1, its AuthToken a token
\* signed for node 1.
AgentNode == 1

\* Start, for an agent whose EnrollToken (if any) was issued beforehand.
E2EStart ==
    /\ proc.enroll0 # NoToken => AgentNode \in issued
    /\ AgentStart

\* POST /api/agent/enroll is answered.
E2EEnroll ==
    /\ proc.pc = "enrolling"
    /\ AgentEnrollReturn([status |-> RouteStatus("/agent/enroll"),
                          authToken |-> NoToken, wings |-> FALSE])

\* POST /api/agent/heartbeat is answered: AgentController.heartbeat with the
\* agent's AuthToken as Bearer token.
E2EHeartbeat(version, hasSystem) ==
    /\ proc.pc \in {"initial", "heartbeat"}
    /\ RouteStatus("/agent/heartbeat") = 200
    /\ IF AgentNode \in creds /\ AgentNode \in NodeIds
       THEN /\ nodes' = [nodes EXCEPT ![AgentNode] =
                            HeartbeatRow(@, now, version)]
            /\ IF hasSystem
               THEN /\ Len(metrics) < MaxMetrics
                    /\ metrics' = Append(metrics, NewMetric(AgentNode))
               ELSE metrics' = metrics
            /\ proc' = AfterHeartbeat(proc, 200)
       ELSE /\ UNCHANGED <<nodes, metrics>>
            /\ proc' = AfterHeartbeat(proc, 401)
    /\ UNCHANGED <<now, calls, ptero, issued, creds, ghost, reqVars, hbVars,
                   vaultVars, authVars>>

NextE2E ==
    \/ Tick
    \/ GenerateEnrollmentToken
    \/ \E n \in 1..MaxNodes : GenerateAgentToken(n)
    \/ E2EStart
    \/ E2EEnroll
    \/ AgentValidate
    \/ \E version \in Versions, hasSystem \in BOOLEAN :
            E2EHeartbeat(version, hasSystem)
    \/ AgentTick

SpecE2E == InitAgent /\ [][NextE2E]_vars

\* ------------------------------------------------- refresh-token rotation
\* The token handed out by a login made before the run: its row is stored,
\* and expires within the run or seven days from its start.
SeedToken == 1

InitRefresh ==
    /\ nodes = <<>>
    /\ metrics = <<>>
    /\ now = 0
    /\ calls = [c \in Calls |-> IdleCall]
    /\ ptero = [locations |-> 0, nodes |-> 0]
    /\ issued = {}
    /\ creds = {}
    /\ ghost = [c \in Calls |-> IdleGhost]
    /\ req = IdleReq
    /\ beats = [h \in Beats |-> IdleBeat]
    /\ agent = IdleAgent
    /\ vault = DownVault
    /\ box = NoBox
    /\ res = NoRes
    /\ client = DownClient
    /\ proc = NewAgent(NoToken, NoToken)
    /\ rcalls = [c \in RCalls |-> IdleRefresh]
    /\ \E e \in {1, RefreshTokenDays} :
          rtok = [rows |-> {[id |-> SeedToken, expiresAt |-> e]},
                  next |-> SeedToken + 1]

\* Every token there can be: the seed and one per refreshToken call.
RefreshTokens == BogusToken..(SeedToken + MaxRefresh)

\* The refresh tokens a client can present: the one from the login, those
\* a refreshToken call has returned, and a string that was never a token.
KnownTokens ==
    {SeedToken, BogusToken}
        \cup {rcalls[c].newToken : c \in {d \in RCalls : rcalls[d].result = "pair"}}

\* prisma.refreshToken.findUnique({ where: { token } })
FindUnique(rows, token) == {r \in rows : r.id = token}

\* prisma.refreshToken.delete({ where: { id } }): removes the row, and
\* throws when there is no such row.  The variant is deleteMany, which
\* removes what matches and never throws.
DeleteManyRow(rows, id) ==
    [ok |-> TRUE, rows |-> {r \in rows : r.id # id}]
DeleteRow(rows, id) ==
    [ok |-> \E r \in rows : r.id = id, rows |-> {r \in rows : r.id # id}]

\* refreshToken: the lookup of the presented token; an absent or expired row
\* is Unauthorized.
RefreshLookup(c, token) ==
    /\ rcalls[c].pc = "idle"
    /\ token \in KnownTokens
    /\ LET found == FindUnique(rtok.rows, token)
       IN rcalls' = [rcalls EXCEPT ![c] =
             IF found = {} \/ \E r \in found : r.expiresAt < now
             THEN [@ EXCEPT !.pc = "done", !.token = token,
                            !.result = "Unauthorized"]
             ELSE [@ EXCEPT !.pc = "found", !.token = token,
                            !.stored = token]]
    /\ UNCHANGED <<core, reqVars, hbVars, vaultVars, agentVars, rtok>>

\* refreshToken: jwtService.sign and generateRefreshToken, which creates the
\* row of a fresh token expiring in seven days.
RefreshGenerate(c) ==
    /\ rcalls[c].pc = "found"
    /\ rtok' = [rows |-> rtok.rows \cup
                    {[id |-> rtok.next,
                      expiresAt |-> now + RefreshTokenDays]},
                next |-> rtok.next + 1]
    /\ rcalls' = [rcalls EXCEPT ![c] =
                    [@ EXCEPT !.pc = "created", !.newToken = rtok.next]]
    /\ UNCHANGED <<core, reqVars, hbVars, vaultVars, agentVars>>

\* refreshToken: the delete of the old row by id, then the return of the
\* pair; a throwing delete is the call's error.
RefreshDelete(c) ==
    /\ rcalls[c].pc = "created"
    /\ LET d == DeleteRow(rtok.rows, rcalls[c].stored)
       IN /\ rtok' = [rtok EXCEPT !.rows = d.rows]
          /\ rcalls' = [rcalls EXCEPT ![c] =
                [@ EXCEPT !.pc = "done",
                          !.result = IF d.ok THEN "pair" ELSE "NotFound"]]
    /\ UNCHANGED <<core, reqVars, hbVars, vaultVars, agentVars>>

\* logout: deleteMany of the user's rows (one user, so all of them).
Logout ==
    /\ rtok.rows # {}
    /\ rtok' = [rtok EXCEPT !.rows = {}]
    /\ UNCHANGED <<core, reqVars, hbVars, vaultVars, agentVars, rcalls>>

NextRefresh ==
    \/ Tick
    \/ \E c \in RCalls, token \in RefreshTokens : RefreshLookup(c, token)
    \/ \E c \in RCalls : RefreshGenerate(c)
    \/ \E c \in RCalls : RefreshDelete(c)
    \/ Logout

SpecRefresh == InitRefresh /\ [][NextRefresh]_vars


\* ================================================================ claims
Orchestrating(c) ==
    calls[c].pc \in {"createLocation", "createNode",
                     "createAllocation", "getNodeConfiguration"}

HeartbeatStep ==
    \E auth \in {Null} \cup 1..MaxNodes, version \in Versions,
       hasSystem \in BOOLEAN : AgentHeartbeat(auth, version, hasSystem)

\* C1: of two enrollNode calls that both looked the same token up while a
\* pending Node held it, and that both ran to their end without an
\* orchestration failure, exactly one returns success and the other returns
\* AlreadyConsumed.
C1_ExactlyOneWinner ==
    \A c, d \in Calls :
        ( /\ c # d
          /\ calls[c].token = calls[d].token
          /\ ghost[c].why = "valid" /\ ghost[d].why = "valid"
          /\ calls[c].pc = "done" /\ calls[d].pc = "done"
          /\ calls[c].result # "HttpException"
          /\ calls[d].result # "HttpException" )
        => \/ calls[c].result = "ok" /\ calls[d].result = "AlreadyConsumed"
           \/ calls[d].result = "ok" /\ calls[c].result = "AlreadyConsumed"

\* C2: an enrollNode call that arrives after a call on the same token has
\* returned success fails at once: it dispatches no orchestration call and
\* never reaches the update of the Node row.
C2_LaterCallsFail ==
    \A c \in Calls :
        ghost[c].afterSuccess =>
            /\ calls[c].pc = "done"
            /\ calls[c].result = "NotFoundException"
            /\ calls[c].orch = 0

C2_Witness ==
    \E c, d \in Calls :
        /\ ghost[c].afterSuccess
        /\ calls[c].pc = "done"
        /\ calls[d].result = "ok"
        /\ calls[d].token = calls[c].token

\* C3: a call on an issued and already consumed token fails with
\* AlreadyConsumed, a call on a token never issued fails with NotFound.
C3_ConsumedIsNotNotFound ==
    \A c \in Calls :
        calls[c].pc = "done" =>
            /\ ghost[c].why = "consumed" => calls[c].result = "AlreadyConsumed"
            /\ ghost[c].why = "absent" => calls[c].result = "NotFoundException"

\* C4: no step changes a Node's status from pending to online.
C4_NoPendingToOnline ==
    [][\A n \in NodeIds :
          nodes[n].status = "pending" => nodes'[n].status # "online"]_vars

\* C5: a heartbeat handled by handleHeartbeat leaves a Node in error in error.
C5_ErrorIsTerminal ==
    [][HeartbeatStep =>
          \A n \in NodeIds :
              nodes[n].status = "error" => nodes'[n].status = "error"]_vars

\* C6: a Node whose enrollmentToken is non-null has status pending.
C6_TokenOnlyWhilePending ==
    \A n \in NodeIds :
        nodes[n].enrollmentToken # Null => nodes[n].status = "pending"

\* C7: a Node that is online, offline or error is never set back to pending
\* or installing.
C7_OneDirectional ==
    [][\A n \in NodeIds :
          nodes[n].status \in {"online", "offline", "error"}
              => nodes'[n].status \notin {"pending", "installing"}]_vars

\* C8: while an orchestration call of an enrollment is in flight, the Node
\* being enrolled is installing and its token is cleared.
C8_InstallingWhileOrchestrating ==
    \A c \in Calls :
        Orchestrating(c) =>
            /\ nodes[calls[c].nodeId].status = "installing"
            /\ nodes[calls[c].nodeId].enrollmentToken = Null

\* C9: a call on a token that exists but is past its expiry fails with
\* Expired, not with the outcome of a token that matches no Node.
C9_ExpiredIsNotNotFound ==
    \A c \in Calls :
        (calls[c].pc = "done" /\ ghost[c].why = "expired")
            => calls[c].result = "Expired"

\* C10: the lookup of a token past its expiry ends the call with an error,
\* leaves every Node row and the external panel as they were and dispatches
\* no orchestration call.
C10_ExpiredChangesNothing ==
    [][\A c \in Calls, token \in 0..MaxNodes :
          (EnrollLookup(c, token) /\ Classify(token) = "expired")
              => /\ nodes' = nodes
                 /\ ptero' = ptero
                 /\ calls'[c].pc = "done"
                 /\ calls'[c].result # "ok"
                 /\ calls'[c].orch = 0]_vars

C10_Witness ==
    \E c \in Calls :
        /\ ghost[c].why = "expired"
        /\ calls[c].pc = "done"
        /\ calls[c].orch = 0
        /\ nodes[calls[c].token].status = "pending"
        /\ nodes[calls[c].token].enrollmentToken = calls[c].token

\* C11: an enrollNode call that ended on a failed orchestration call leaves
\* its Node in status error.
C11_FailureLeavesError ==
    \A c \in Calls :
        (calls[c].pc = "done" /\ calls[c].result = "HttpException")
            => nodes[calls[c].token].status = "error"

\* C19: when enrollNode has returned success, an agent token has been signed
\* for the enrolled node.
C19_SuccessIssuesCredential ==
    \A c \in Calls :
        calls[c].result = "ok" => calls[c].token \in creds

\* C20: the daemonToken column of every row is null or a ciphertext (nonce
\* and secretbox), never the plaintext the panel returned.
IsCiphertext(v) == DOMAIN v = {"nonce", "box"}

C20_DaemonTokenEncrypted ==
    \A n \in NodeIds :
        nodes[n].daemonToken = NoSecret \/ IsCiphertext(nodes[n].daemonToken)

C20_Witness ==
    \E n \in NodeIds :
        /\ n \in issued
        /\ nodes[n].pterodactylId # Null
        /\ nodes[n].daemonToken # NoSecret
        /\ nodes[n].daemonToken.box = DaemonToken(nodes[n].pterodactylId)

ReqEnded == req.pc \in {"returned", "thrown"}

\* C12: a call whose first attempt received an HTTP 4xx makes no further
\* attempt and no backoff wait: it has thrown after that one request.
C12_ClientErrorNotRetried ==
    (Len(req.responses) >= 1 /\ req.responses[1] \in 400..499)
        => /\ req.pc = "thrown"
           /\ Len(req.responses) = 1
           /\ req.waits = <<>>

\* C13: a call that received HTTP 503 on every attempt never makes a fourth
\* attempt; when it ends it has thrown after exactly 3 attempts and 2 waits,
\* the second wait twice the first.
All503 ==
    /\ req.responses # <<>>
    /\ \A i \in 1..Len(req.responses) : req.responses[i] = 503

C13_ThreeAttemptsDoublingBackoff ==
    All503 =>
        /\ req.attempt <= 3
        /\ Len(req.waits) <= 2
        /\ Len(req.waits) = 2 => /\ req.waits[2] > req.waits[1]
                                 /\ req.waits[2] = 2 * req.waits[1]
        /\ ReqEnded => /\ req.pc = "thrown"
                       /\ Len(req.responses) = 3
                       /\ Len(req.waits) = 2

C13_Witness ==
    /\ req.pc = "thrown"
    /\ req.responses = <<503, 503, 503>>
    /\ Len(req.waits) = 2

\* C14: the orchestration call made by enrollNode, and so the enrollment
\* flow it belongs to, never lasts longer than 60 seconds.
C14_SixtySecondCeiling ==
    req.elapsed <= 60

\* A heartbeat request the controller is handling, and one it has answered
\* { status: 'ok' }.
InFlight(h) == beats[h].pc \in {"update", "metric"}
Stored(h) == beats[h].pc = "done" /\ beats[h].response.status = 200

\* C15: the NodeMetric table holds at most one row per (nodeId, timestamp)
\* of the heartbeats stored with a system part, so a heartbeat delivered a
\* second time with the same payload at the same time adds no second row.
C15_ReplayAddsNoRow ==
    \A n \in NodeIds :
        Cardinality({ i \in DOMAIN metrics : metrics[i].nodeId = n })
            <= Cardinality({ beats[h].stamp :
                   h \in { g \in Beats : /\ Stored(g)
                                         /\ beats[g].hasSystem
                                         /\ beats[g].cred.nodeId = n } })

\* C16: no step replaces a node's lastHeartbeat with an earlier time.
C16_LastHeartbeatMonotonic ==
    [][ \A n \in NodeIds :
            nodes[n].lastHeartbeat # Null
                => nodes'[n].lastHeartbeat >= nodes[n].lastHeartbeat ]_vars

\* C17: the controller never handles two heartbeats of the same node at the
\* same time.
C17_OneHeartbeatAtATime ==
    \A g, h \in Beats :
        ( /\ g # h
          /\ InFlight(g) /\ InFlight(h) )
        => beats[g].cred.nodeId # beats[h].cred.nodeId

\* C18: every request authenticateAgent rejects is answered 401 with the
\* message 'Invalid agent token', whatever the cause of the rejection, so two
\* rejected requests get the same response.
C18_RejectionHidesCause ==
    \A g, h \in Beats :
        ( /\ beats[g].cause # "none"
          /\ beats[h].cause # "none" )
        => /\ beats[g].response = beats[h].response
           /\ beats[g].response.status = 401
           /\ beats[g].response.message = "Invalid agent token"

C18_Witness ==
    \E g, h \in Beats :
        /\ beats[g].cause = "Node not found"
        /\ beats[h].cause \in {"invalid signature", "jwt expired"}

\* C21: decrypting the blob encrypt returned gives back the plaintext that
\* was encrypted, whatever the plaintext and the nonce drawn.
C21_RoundTrip ==
    res.kind = "intact" => /\ ~res.out.threw
                           /\ res.out.value = box.plain

\* C22: decrypt of a truncated blob, of a blob with one bit flipped and of a
\* blob encrypted under another key throws Error('Decryption failed') and
\* returns no plaintext.
C22_UniformDecryptionFailed ==
    res.kind \in {"truncated", "flipped", "wrongkey"}
        => /\ res.out.threw
           /\ res.out.message = "Decryption failed"

\* C23: a vault that was constructed holds a key of exactly KeyBytes bytes,
\* and when ENCRYPTION_KEY is missing or decodes to another length the
\* constructor has thrown and nothing was encrypted, decrypted or built on
\* the vault.
C23_BadKeyIsFatal ==
    /\ vault.pc = "up" => Len(vault.key) = KeyBytes
    /\ ( /\ vault.pc # "down"
         /\ \/ ~vault.keyHex.set
            \/ Len(HexDecode(vault.keyHex.value)) # KeyBytes )
       => /\ vault.pc = "failed"
          /\ ~box.made
          /\ res.kind = "none"
          /\ client.pc = "down"

C23_Witness ==
    /\ vault.pc = "failed"
    /\ vault.keyHex.set
    /\ Len(vault.keyHex.value) = 2 * KeyBytes

\* C24: every request of the PterodactylService carries an API key the
\* vault decrypted.
C24_NoRequestWithoutDecryption ==
    client.sent # <<>> => client.decrypted

\* The agent is in its heartbeat loop (the initial heartbeat included).
AgentRunning == proc.pc \in {"initial", "select", "heartbeat"}

\* C25: an agent started with an AuthToken sends no enroll request; no Start
\* sends more than one; and one is sent only by an agent started without
\* AuthToken and with an EnrollToken.
C25_EnrollOnlyWithoutCredential ==
    /\ proc.auth0 # NoToken => proc.enrolls = 0
    /\ proc.enrolls <= 1
    /\ proc.enrolls = 1 => proc.auth0 = NoToken /\ proc.enroll0 # NoToken

C25_Witness ==
    /\ proc.auth0 # NoToken /\ proc.enroll0 # NoToken
    /\ proc.pc = "select"
    /\ proc.enrolls = 0

\* C26: after a failure inside enroll (the enroll request, saving the
\* configuration, configuring the daemon) the agent is never in its
\* heartbeat loop, and Start does not return nil.
C26_EnrollFailureIsFatal ==
    ( \/ proc.saved = "failed"
      \/ proc.wings = "failed"
      \/ proc.result = "enrollment failed" )
    => /\ ~AgentRunning
       /\ proc.result # "nil"

\* C27: when a heartbeat returns, with an error or not, the agent goes to
\* the select of its loop without sending anything; and it leaves the
\* select only to send one heartbeat on a tick, or to return once
\* cancelled.
C27_FailedHeartbeatKeepsLoop ==
    [][ /\ ( proc.pc \in {"initial", "heartbeat"} /\ proc'.pc # proc.pc )
           => /\ proc'.pc = "select"
              /\ proc'.sent = proc.sent
              /\ proc'.inflight = 0
        /\ ( proc.pc = "select" /\ proc'.pc # "select" )
           => \/ proc'.pc = "heartbeat" /\ proc'.sent = proc.sent + 1
              \/ proc.cancelled /\ proc'.pc = "returned" ]_vars

C27_Witness ==
    /\ proc.pc = "heartbeat"
    /\ proc.last \in {TransportError, 500}
    /\ ~proc.cancelled

\* C28: once a heartbeat was answered 401 the agent sends no further
\* heartbeat.
C28_RejectionStopsHeartbeats ==
    [][ proc.rejected => proc'.sent = proc.sent ]_vars

\* C29: the agent never has more than one request in flight.
C29_OneRequestInFlight ==
    /\ proc.inflight <= 1
    /\ proc.inflight = 1 <=> proc.pc \in {"enrolling", "initial", "heartbeat"}

C29_Witness ==
    /\ proc.enrolls = 1
    /\ proc.pc = "heartbeat"
    /\ proc.sent = 2

C31_EndToEndEnrollment ==
    ( /\ proc.enrolls = 1 /\ proc.pc # "enrolling"
      /\ AgentNode \in issued
      /\ ~IsExpired(nodes[AgentNode].enrollmentExpiresAt, now) )
    => /\ proc.result # "enrollment failed"
       /\ proc.authToken # NoToken
       /\ nodes[AgentNode].status \in {"installing", "online"}
       /\ (proc.sent >= 1 /\ proc.pc = "select")
             => nodes[AgentNode].status = "online"

\* C32: once an enrollNode call has thrown, and no other call on its token
\* is under way or has succeeded, the Node is not left installing: it is
\* pending with its token, or in error.
C32_FailureNeverStrandsInstalling ==
    \A c \in Calls :
        ( /\ calls[c].pc = "done" /\ calls[c].result = "HttpException"
          /\ Succeeded(calls[c].token) = {}
          /\ \A d \in Calls : calls[d].token = calls[c].token
                                  => calls[d].pc \in {"idle", "done"} )
        => LET row == nodes[calls[c].token]
           IN /\ row.status # "installing"
              /\ row.status = "pending" => row.enrollmentToken = calls[c].token

\* C33: the external panel holds at most one location and one node per
\* enrollment token issued, whatever calls were made with the tokens.
C33_OneExternalResourcePerToken ==
    /\ ptero.locations <= Cardinality(issued)
    /\ ptero.nodes <= Cardinality(issued)

\* C34: as long as every heartbeat handled so far has ended with an error,
\* the Node row is as enrollment left it and no sample is stored; and a
\* heartbeat answered ok has updated the row and, with a system part,
\* stored its sample.
C34_HeartbeatAllOrNothing ==
    /\ (\A h \in Beats : beats[h].pc \in {"idle", "done"} /\ ~Stored(h))
          => /\ nodes[EnrolledNode].status = "installing"
             /\ nodes[EnrolledNode].lastHeartbeat = Null
             /\ nodes[EnrolledNode].agentVersion = Null
             /\ metrics = <<>>
    /\ \A h \in Beats :
          Stored(h) => /\ nodes[EnrolledNode].status = "online"
                       /\ beats[h].hasSystem => metrics # <<>>

\* C35: a heartbeat request without Bearer token, or whose token fails
\* verification (signature, expiry, node), is answered on receipt and that
\* step changes no Node row and no sample; only a request whose token
\* verifies is ever handled further.
C35_RejectedHeartbeatChangesNothing ==
    /\ [] \A h \in Beats :
            /\ (InFlight(h) \/ Stored(h))
                  => /\ beats[h].cred # NoBearer
                     /\ VerifyOutcome(beats[h].cred, beats[h].stamp) = "ok"
            /\ (beats[h].pc = "done" /\ beats[h].response.status = 401)
                  => beats[h].stamp = Null
    /\ [][ \A h \in Beats :
              (beats[h].pc = "idle" /\ beats'[h].pc = "done")
                  => nodes' = nodes /\ metrics' = metrics ]_vars

C35_Witness ==
    \E g, h \in Beats :
        /\ beats[g].pc = "done" /\ beats[g].cred = NoBearer
        /\ beats[h].pc = "done" /\ beats[h].cause # "none"
        /\ nodes[EnrolledNode].status = "installing"

\* C36: makeRequest makes at most 3 attempts and ends: a call that returned
\* did so on the first attempt answered 2xx, having made exactly that many
\* requests; a call that threw made 3 requests and 2 waits, none after the
\* third; after its end the call does nothing more.
C36_EndsWithinThreeAttempts ==
    /\ [] /\ req.attempt <= 3
          /\ Len(req.responses) <= 3
          /\ req.pc = "returned"
                => /\ Len(req.responses) = req.attempt
                   /\ req.responses[req.attempt] = 200
                   /\ \A i \in 1..(req.attempt - 1) : req.responses[i] # 200
                   /\ Len(req.waits) = req.attempt - 1
          /\ req.pc = "thrown"
                => /\ Len(req.responses) = 3
                   /\ \A i \in 1..3 : req.responses[i] # 200
                   /\ Len(req.waits) = 2
    /\ [][ ReqEnded => req' = req ]_vars
    /\ (req.pc \in {"request", "backoff"}) ~> ReqEnded

C36_Witness ==
    /\ req.pc = "returned"
    /\ req.attempt = 2
    /\ req.responses = <<503, 200>>

\* C37: the agent sends no heartbeat without a credential: a heartbeat was
\* sent, or the loop is running, only with a non-empty AuthToken; a Start
\* with neither AuthToken nor EnrollToken, or whose enrollment left AuthToken
\* empty, returns an error without having sent a heartbeat.
C37_NoHeartbeatWithoutCredential ==
    /\ (proc.sent > 0 \/ AgentRunning) => proc.authToken # NoToken
    /\ ( /\ proc.pc = "returned"
         /\ \/ proc.auth0 = NoToken /\ proc.enroll0 = NoToken
            \/ proc.enrolls > 0 /\ proc.authToken = NoToken )
          => /\ proc.result \in {"no authentication token available",
                                 "enrollment failed"}
             /\ proc.sent = 0

C37_Witness ==
    /\ proc.pc = "returned"
    /\ proc.enrolls = 1
    /\ proc.saved = "yes"
    /\ proc.authToken = NoToken
    /\ proc.result = "no authentication token available"
    /\ proc.sent = 0

\* C38: the configuration that enroll has persisted holds a non-empty
\* EnrollToken or a non-empty AuthToken.
C38_PersistedConfigCanAuthenticate ==
    proc.saved = "yes"
        => proc.authToken # NoToken \/ proc.enrollToken # NoToken

\* C39: rotation is single-use: of the refreshToken calls presenting one
\* token at most one has returned a pair, and once one has, the row of that
\* token is no longer stored.
C39_RotationSingleUse ==
    /\ \A c, d \in RCalls :
          /\ rcalls[c].result = "pair"
          /\ rcalls[d].result = "pair"
          /\ rcalls[c].token = rcalls[d].token
          => c = d
    /\ \A c \in RCalls :
          rcalls[c].result = "pair"
              => FindUnique(rtok.rows, rcalls[c].token) = {}

C39_Witness ==
    \E c, d \in RCalls :
        /\ rcalls[c].token = SeedToken
        /\ rcalls[d].token = SeedToken
        /\ rcalls[c].result = "pair"
        /\ rcalls[d].result = "NotFound"
        /\ rcalls[d].stored = SeedToken
====
